---- MODULE Spec2Model ----
(***************************************************************************)
(* Model of the result-aggregation and scoring engine of the code          *)
(* reviewer: the HTTP operation review() of backend/main.py and the CI     *)
(* entry point main() of backend/ci_review.py, with the three tool         *)
(* adapters and their categorizers (backend/analyzers).                    *)
(*                                                                         *)
(* Python values are represented as follows.                               *)
(*   str            a TLA+ string (\o, Len and SubSeq act on strings)      *)
(*   Optional[str]  a set: {} is None, {s} is the string s                 *)
(*   list           a sequence                                             *)
(*   dict           a record; a key that may be absent is tested with      *)
(*                  DOMAIN                                                 *)
(***************************************************************************)
EXTENDS Integers, Sequences, FiniteSets, TLC

(***************************************************************************)
(* Bounds of the model.                                                    *)
(***************************************************************************)
\* Raw records the three tools report in one run, all invocations together
\* (the generated bursts below are not counted).
MaxRaw == 2
\* Lists up to this length are rearranged in every order, longer lists by
\* every exchange of two entries.
PermMax == 3
\* Length of the generated semgrep outputs holding that many distinct rules.
BurstLen == 5

(***************************************************************************)
(* Strings.                                                                *)
(***************************************************************************)
UpperChars == "ABCDEFGHIJKLMNOPQRSTUVWXYZ"
LowerChars == "abcdefghijklmnopqrstuvwxyz"

CharAt(s, i) == SubSeq(s, i, i)

\* the letters str.lower() and str.upper() change (ASCII)
ToLower ==
  [c \in {CharAt(UpperChars, i) : i \in 1..Len(UpperChars)} |->
     CharAt(LowerChars, CHOOSE i \in 1..Len(UpperChars) : CharAt(UpperChars, i) = c)]
ToUpper ==
  [c \in {CharAt(LowerChars, i) : i \in 1..Len(LowerChars)} |->
     CharAt(UpperChars, CHOOSE i \in 1..Len(LowerChars) : CharAt(LowerChars, i) = c)]

\* every character of s replaced by its image under map, if it has one: a
\* string of two or more characters is mapped half by half, which keeps the
\* evaluation of a long string shallow
RECURSIVE MapString(_, _)
MapString(s, map) ==
  IF s = "" THEN ""
  ELSE IF Len(s) = 1 THEN (IF s \in DOMAIN map THEN map[s] ELSE s)
  ELSE LET half == Len(s) \div 2 IN
       MapString(SubSeq(s, 1, half), map) \o MapString(SubSeq(s, half + 1, Len(s)), map)

\* str.lower() and str.upper()
lower(s) == MapString(s, ToLower)
upper(s) == MapString(s, ToUpper)

\* sub in s
Contains(s, sub) ==
  \E i \in 1..(Len(s) - Len(sub) + 1) : SubSeq(s, i, i + Len(sub) - 1) = sub

\* s[:n]
Take(s, n) == IF Len(s) <= n THEN s ELSE SubSeq(s, 1, n)

Whitespace == {" ", "\t", "\n", "\r"}

RECURSIVE lstrip(_)
lstrip(s) ==
  IF s # "" /\ CharAt(s, 1) \in Whitespace THEN lstrip(Tail(s)) ELSE s

RECURSIVE rstrip(_)
rstrip(s) ==
  IF s # "" /\ CharAt(s, Len(s)) \in Whitespace
  THEN rstrip(SubSeq(s, 1, Len(s) - 1)) ELSE s

\* a strip that takes one whitespace character at most from each end
strip_one_character(s) ==
  LET l == IF s # "" /\ CharAt(s, 1) \in Whitespace THEN Tail(s) ELSE s
  IN IF l # "" /\ CharAt(l, Len(l)) \in Whitespace
     THEN SubSeq(l, 1, Len(l) - 1) ELSE l

\* str.strip()
strip(s) == rstrip(lstrip(s))

\* str.split("\n")
RECURSIVE split_lines(_)
split_lines(s) ==
  IF \E i \in 1..Len(s) : CharAt(s, i) = "\n"
  THEN LET i == CHOOSE k \in 1..Len(s) :
                  /\ CharAt(s, k) = "\n"
                  /\ \A j \in 1..(k - 1) : CharAt(s, j) # "\n"
       IN <<SubSeq(s, 1, i - 1)>> \o split_lines(SubSeq(s, i + 1, Len(s)))
  ELSE <<s>>

\* Path(path_str).name for a POSIX path without a trailing slash
PathName(p) ==
  IF \E i \in 1..Len(p) : CharAt(p, i) = "/"
  THEN LET i == CHOOSE k \in 1..Len(p) :
                  /\ CharAt(p, k) = "/"
                  /\ \A j \in (k + 1)..Len(p) : CharAt(p, j) # "/"
       IN SubSeq(p, i + 1, Len(p))
  ELSE p

\* "; ".join(notes)
RECURSIVE Join(_, _)
Join(sep, parts) ==
  IF parts = <<>> THEN ""
  ELSE IF Len(parts) = 1 THEN parts[1]
  ELSE parts[1] \o sep \o Join(sep, Tail(parts))

None == {}
Some(s) == {s}

(***************************************************************************)
(* Findings: [title, description, severity].                               *)
(***************************************************************************)
Severities == {"low", "medium", "high"}

Item(title, description, severity) ==
  [title |-> title, description |-> description, severity |-> severity]

(***************************************************************************)
(* The pattern scanner (analyzers/semgrep_runner.py).  A process outcome   *)
(* is [kind, results, returncode, stderr]:                                 *)
(*   kind "missing"       the executable cannot be started                 *)
(*        "no_output"     stdout is empty                                  *)
(*        "invalid_json"  stdout is not JSON                               *)
(*        "not_object"    stdout is JSON, but no object (a list)           *)
(*        "ok"            stdout is {"results": results}                   *)
(*        "hangs"         the process never exits (subprocess.run is given *)
(*                        no timeout and waits for it)                     *)
(* A raw result is [check_id, message, severity, path, start, end]: the    *)
(* keys extra.message, extra.severity, start.line and end.line flattened;  *)
(* check_id may be absent, a line 0 stands for an absent line.             *)
(***************************************************************************)
Raised(msg) == [raised |-> TRUE, msg |-> msg]
Returned(v) == [raised |-> FALSE, value |-> v]

run_semgrep_on_folder(proc) ==
  IF proc.kind = "missing"
  THEN Raised("[Errno 2] No such file or directory: 'semgrep'")
  ELSE IF proc.kind = "no_output"
  THEN Raised("Semgrep produced no JSON output. returncode="
              \o ToString(proc.returncode) \o " stderr=" \o Take(proc.stderr, 600))
  ELSE IF proc.kind = "invalid_json"
  THEN Raised("Semgrep output was not valid JSON. returncode="
              \o ToString(proc.returncode) \o " stderr=" \o Take(proc.stderr, 600)
              \o " stdout_head=" \o Take(proc.stdout, 200))
  ELSE Returned(proc)

pretty_path(path_str) == IF path_str = "" THEN "" ELSE PathName(path_str)

normalize_severity(semgrep_sev) ==
  LET s == upper(semgrep_sev) IN
  IF s \in {"ERROR", "CRITICAL", "HIGH"} THEN "high"
  ELSE IF s \in {"WARNING", "MEDIUM"} THEN "medium"
  ELSE "low"

semgrep_check_id(f) ==
  IF "check_id" \in DOMAIN f THEN f.check_id ELSE "semgrep.issue"

semgrep_item(f) ==
  LET message == IF f.message = "" THEN "Semgrep finding" ELSE f.message
      where == pretty_path(f.path)
               \o (IF f.start # 0
                   THEN ":" \o ToString(f.start)
                        \o (IF f.end # 0 /\ f.end # f.start
                            THEN "-" \o ToString(f.end) ELSE "")
                   ELSE "")
  IN Item(semgrep_check_id(f),
          message \o " (" \o where \o ")",
          normalize_severity(f.severity))

\* the bucket of one raw result (lines 128-132)
semgrep_bucket(f) ==
  LET cid == lower(semgrep_check_id(f)) IN
  IF Contains(cid, "no-console") \/ Contains(cid, "console-log")
  THEN "best_practices" ELSE "security"

semgrep_items(fs) == [i \in 1..Len(fs) |-> semgrep_item(fs[i])]

\* data is a JSON object here; a JSON list has no .get and raises
semgrep_results_to_categories(data) ==
  LET InSecurity(f) == semgrep_bucket(f) = "security"
      InBest(f) == semgrep_bucket(f) = "best_practices"
  IN [security |-> semgrep_items(SelectSeq(data.results, InSecurity)),
      best_practices |-> semgrep_items(SelectSeq(data.results, InBest))]

(***************************************************************************)
(* The linter (analyzers/eslint_runner.py).  A process outcome is          *)
(* [kind, messages, stderr]:                                               *)
(*   kind "no_bin"       the local eslint binary is absent                 *)
(*        "no_config"    eslint.config.mjs is absent                       *)
(*        "spawn_error"  the binary cannot be started                      *)
(*        "empty"        stdout is empty                                   *)
(*        "unparseable"  stdout is not JSON                                *)
(*        "bad_shape"    stdout is JSON, but no list of file reports       *)
(*        "ok"           stdout is a list of file reports; messages are    *)
(*                       their messages in order, each with its filePath   *)
(*                       (no JS/TS file to scan gives "ok" and no message) *)
(*        "hangs"        the process never exits                           *)
(* A raw message is [filePath, ruleId, severity, message, line]; ruleId "" *)
(* stands for null.                                                        *)
(***************************************************************************)
ToolResult(ok, error, issues) == [ok |-> ok, error |-> error, issues |-> issues]

eslint_issue(m) ==
  [tool |-> "eslint", file |-> m.filePath, line |-> m.line,
   rule_id |-> IF m.ruleId = "" THEN "eslint" ELSE m.ruleId,
   severity_num |-> m.severity, message |-> m.message]

run_eslint(proc) ==
  IF proc.kind = "no_bin"
  THEN Returned(ToolResult(FALSE,
         Some("ESLint not found: /repo/tools/eslint/node_modules/.bin/eslint"), <<>>))
  ELSE IF proc.kind = "no_config"
  THEN Returned(ToolResult(FALSE,
         Some("ESLint config not found: /repo/tools/eslint/eslint.config.mjs"), <<>>))
  ELSE IF proc.kind = "spawn_error"
  THEN Raised("[Errno 13] Permission denied: 'eslint'")
  ELSE IF proc.kind = "empty"
  THEN Returned(ToolResult(FALSE,
         Some("ESLint produced no JSON. stderr: " \o Take(proc.stderr, 2000)), <<>>))
  ELSE IF proc.kind = "unparseable"
  THEN Returned(ToolResult(FALSE,
         Some("Failed parsing ESLint JSON. stderr: " \o Take(proc.stderr, 2000)), <<>>))
  ELSE IF proc.kind = "bad_shape"
  THEN Raised("'str' object has no attribute 'get'")
  ELSE Returned(ToolResult(TRUE,
         IF proc.stderr = "" THEN None ELSE Some(Take(proc.stderr, 2000)),
         [i \in 1..Len(proc.messages) |-> eslint_issue(proc.messages[i])]))

\* the bucket by the level alone, but for no-eval
eslint_bucket_by_level(it) ==
  LET rule == lower(it.rule_id) IN
  IF rule = "no-eval" THEN ""
  ELSE IF it.severity_num = 2 THEN "bugs"
  ELSE "best_practices"

\* the bucket of one issue: "" when the issue is skipped (lines 147-179)
eslint_bucket(it) ==
  LET rule == lower(it.rule_id) IN
  IF rule = "no-eval" THEN ""
  ELSE IF rule = "@typescript-eslint/no-explicit-any" THEN "best_practices"
  ELSE IF it.severity_num = 2 THEN "bugs"
  ELSE "best_practices"

eslint_item(it) ==
  Item("eslint." \o it.rule_id,
       it.message \o " (" \o pretty_path(it.file) \o ":" \o ToString(it.line) \o ")",
       IF eslint_bucket(it) = "bugs" THEN "high" ELSE "medium")

eslint_items(its) == [i \in 1..Len(its) |-> eslint_item(its[i])]

eslint_to_schema(eslint_result) ==
  LET InBugs(it) == eslint_bucket(it) = "bugs"
      InBest(it) == eslint_bucket(it) = "best_practices"
  IN [security |-> <<>>,
      bugs |-> eslint_items(SelectSeq(eslint_result.issues, InBugs)),
      best_practices |-> eslint_items(SelectSeq(eslint_result.issues, InBest)),
      performance |-> <<>>]

(***************************************************************************)
(* The Python security scanner (analyzers/bandit_runner.py).  A process    *)
(* outcome is [kind, results, stderr]:                                     *)
(*   kind "spawn_error"  python cannot be started                          *)
(*        "empty"        stdout is empty                                   *)
(*        "unparseable"  stdout is not JSON                                *)
(*        "bad_shape"    stdout is JSON, but no object (a list)            *)
(*        "ok"           stdout is {"results": results}                    *)
(*        "hangs"        the process never exits                           *)
(* A raw result is [test_id, test_name, issue_severity, filename,          *)
(* line_number, issue_text].                                               *)
(***************************************************************************)
bandit_issue(r) ==
  [tool |-> "bandit", test_id |-> r.test_id, test_name |-> r.test_name,
   severity |-> lower(r.issue_severity), file |-> r.filename,
   line |-> r.line_number, message |-> r.issue_text]

run_bandit(proc) ==
  IF proc.kind = "spawn_error"
  THEN Raised("[Errno 2] No such file or directory: 'python'")
  ELSE IF proc.kind = "empty"
  THEN Returned(ToolResult(FALSE,
         Some("Bandit produced no JSON. stderr: " \o Take(proc.stderr, 2000)), <<>>))
  ELSE IF proc.kind = "unparseable"
  THEN Returned(ToolResult(FALSE,
         Some("Failed parsing Bandit JSON. stderr: " \o Take(proc.stderr, 2000)), <<>>))
  ELSE IF proc.kind = "bad_shape"
  THEN Raised("'list' object has no attribute 'get'")
  ELSE Returned(ToolResult(TRUE,
         IF proc.stderr = "" THEN None ELSE Some(Take(proc.stderr, 2000)),
         [i \in 1..Len(proc.results) |-> bandit_issue(proc.results[i])]))

bandit_item(it) ==
  LET s == lower(IF it.severity = "" THEN "low" ELSE it.severity)
      sev == IF s \in {"low", "medium", "high"} THEN s ELSE "low"
      test_id == IF it.test_id = "" THEN "bandit" ELSE it.test_id
      test_name == IF it.test_name = "" THEN "issue" ELSE it.test_name
  IN Item("bandit." \o test_id,
          test_name \o ": " \o it.message \o " (" \o pretty_path(it.file)
            \o ":" \o ToString(it.line) \o ")",
          sev)

bandit_to_schema(bandit_result) ==
  [security |-> [i \in 1..Len(bandit_result.issues) |->
                   bandit_item(bandit_result.issues[i])],
   bugs |-> <<>>, best_practices |-> <<>>, performance |-> <<>>]

(***************************************************************************)
(* Deduplication, scoring and recommendation.                              *)
(***************************************************************************)
\* a dict that keeps the value a title had first
dict_put_first_wins(out, it) ==
  IF \E i \in 1..Len(out) : out[i].title = it.title THEN out ELSE Append(out, it)

\* a dict that lists its newest key first
dict_put_newest_first(out, it) ==
  IF \E i \in 1..Len(out) : out[i].title = it.title
  THEN [i \in 1..Len(out) |-> IF out[i].title = it.title THEN it ELSE out[i]]
  ELSE <<it>> \o out

\* out[it["title"]] = it on a dict kept as the sequence of its values: a new
\* title is appended, a known title keeps its place and takes the new value
dict_put(out, it) ==
  IF \E i \in 1..Len(out) : out[i].title = it.title
  THEN [i \in 1..Len(out) |-> IF out[i].title = it.title THEN it ELSE out[i]]
  ELSE Append(out, it)

\* for it in items: out[it["title"]] = it.  The loop over a list of two or
\* more items is the loop over its first half followed by the loop over the
\* rest, which keeps the evaluation of a long list shallow.  The dict the
\* first half leaves is complete before the rest begins, as in the loop: it
\* is compared with the empty dict, and the rest starts from it either way.
RECURSIVE dict_fill(_, _)
dict_fill(out, items) ==
  IF items = <<>> THEN out
  ELSE IF Len(items) = 1 THEN dict_put(out, items[1])
  ELSE LET half == Len(items) \div 2
           filled == dict_fill(out, SubSeq(items, 1, half))
           rest == SubSeq(items, half + 1, Len(items))
       IN IF filled = <<>> THEN dict_fill(<<>>, rest) ELSE dict_fill(filled, rest)

\* a loop that stops before the last finding
dedupe_skips_last(items) == dict_fill(<<>>, SubSeq(items, 1, Len(items) - 1))

\* ci_review.py: dedupe(items)
dedupe(items) == dict_fill(<<>>, items)

\* main.py: unique_by_title over all_items, then list(values())
unique_by_title(all_items) == dict_fill(<<>>, all_items)

\* a penalty of 3 for high
penalty_high3(sev) ==
  IF sev = "high" THEN 3
  ELSE IF sev = "medium" THEN 1
  ELSE 0

\* ci_review.py: penalty(sev)
penalty(sev) ==
  IF sev = "high" THEN 2
  ELSE IF sev = "medium" THEN 1
  ELSE 0

\* main.py: penalty(item)
item_penalty(item) ==
  IF item.severity = "high" THEN 2
  ELSE IF item.severity = "medium" THEN 1
  ELSE 0

\* sum(xs): the sum of a list of two or more numbers is the sum of its first
\* half plus the sum of the rest, which keeps the evaluation of a long list
\* shallow
RECURSIVE Sum(_)
Sum(xs) ==
  IF xs = <<>> THEN 0
  ELSE IF Len(xs) = 1 THEN xs[1]
  ELSE LET half == Len(xs) \div 2 IN
       Sum(SubSeq(xs, 1, half)) + Sum(SubSeq(xs, half + 1, Len(xs)))

\* ci_review.py: sum(penalty(it["severity"]) for it in items)
penalty_sum(items) == Sum([i \in 1..Len(items) |-> penalty(items[i].severity)])

\* main.py: sum(penalty(it) for it in items)
item_penalty_sum(items) == Sum([i \in 1..Len(items) |-> item_penalty(items[i])])

Min(a, b) == IF a <= b THEN a ELSE b
Max(a, b) == IF a >= b THEN a ELSE b

\* the score without the cap of 2 on best_pen
main_score_uncapped(security_items, bugs_items, best_items, perf_items) ==
  Max(1, Min(10, 10 - (penalty_sum(security_items) + penalty_sum(bugs_items)
                       + penalty_sum(perf_items) + penalty_sum(best_items))))

\* ci_review.py lines 109-114
main_score(security_items, bugs_items, best_items, perf_items) ==
  LET security_pen == penalty_sum(security_items)
      bugs_pen == penalty_sum(bugs_items)
      perf_pen == penalty_sum(perf_items)
      best_pen == Min(penalty_sum(best_items), 2)
  IN Max(1, Min(10, 10 - (security_pen + bugs_pen + perf_pen + best_pen)))

\* the score without the clamp of line 444
review_score_unclamped(security_items, bugs_items, best_practices_items, performance_items) ==
  10 - (item_penalty_sum(security_items) + item_penalty_sum(bugs_items)
        + item_penalty_sum(performance_items)
        + Min(item_penalty_sum(best_practices_items), 2))

\* main.py lines 435-444
review_score(security_items, bugs_items, best_practices_items, performance_items) ==
  LET security_pen == item_penalty_sum(security_items)
      bugs_pen == item_penalty_sum(bugs_items)
      perf_pen == item_penalty_sum(performance_items)
      best_pen == Min(item_penalty_sum(best_practices_items), 2)
      total_pen == security_pen + bugs_pen + perf_pen + best_pen
  IN Max(1, Min(10, 10 - total_pen))

\* the recommendation with the score consulted before the security gate
main_recommendation_score_first(security_items, score) ==
  IF score <= 6 THEN "review_required"
  ELSE IF score >= 7 THEN "ok"
  ELSE "block_merge"

\* ci_review.py lines 119-125
main_recommendation(security_items, score) ==
  IF \E i \in 1..Len(security_items) : security_items[i].severity = "high"
  THEN "block_merge"
  ELSE IF score <= 6 THEN "review_required"
  ELSE "ok"

\* the recommendation with review_required below 6 only
review_recommendation_below6(security_items, score) ==
  IF \E i \in 1..Len(security_items) : security_items[i].severity = "high"
  THEN "block_merge"
  ELSE IF score < 6 THEN "review_required"
  ELSE "ok"

\* main.py lines 459-465
review_recommendation(security_items, score) ==
  IF \E i \in 1..Len(security_items) : security_items[i].severity = "high"
  THEN "block_merge"
  ELSE IF score <= 6 THEN "review_required"
  ELSE "ok"

SummaryClean == "No major issues found by automated checks."
SummaryIssues == "Automated checks found issues. Review before merging."

\* the summary that tells a list of one finding from an empty one
review_summary_above_one(total_issues) ==
  IF total_issues <= 1 THEN SummaryClean ELSE SummaryIssues

\* main.py lines 449-454
review_summary(total_issues) ==
  IF total_issues = 0 THEN SummaryClean ELSE SummaryIssues

\* bool(opt) of an Optional[str]: None and "" are false
Truthy(opt) == \E s \in opt : s # ""

\* the notes of both entry points: a note per truthy error, in this order
Notes(parts) ==
  LET Kept(o) == Truthy(o)
      kept == SelectSeq(parts, Kept)
  IN [i \in 1..Len(kept) |-> CHOOSE m \in kept[i] : TRUE]

\* the first note alone
JoinNotes_first_only(notes) == IF notes = <<>> THEN None ELSE Some(notes[1])

\* "; ".join(notes) if notes else None
JoinNotes(notes) == IF notes = <<>> THEN None ELSE Some(Join("; ", notes))

\* items[:50]
ReportCap == 50

(***************************************************************************)
(* The environment: what a request holds and what the tools answer.        *)
(***************************************************************************)
SeqsUpTo(S, n) == UNION {[1..k -> S] : k \in 0..n}

SemgrepRaw(check_id, severity, start, end) ==
  [check_id |-> check_id, message |-> "Finding", severity |-> severity,
   path |-> "/tmp/tmpab12/main.ts", start |-> start, end |-> end]

SemgrepResults ==
  { SemgrepRaw("rules.quick-rules.eval-detected", "ERROR", 3, 3),
    SemgrepRaw("rules.quick-rules.eval-detected", "INFO", 7, 8),
    SemgrepRaw("rules.quick-rules.No-Console-Log", "WARNING", 1, 0),
    SemgrepRaw("python.lang.hardcoded-password", "warning", 2, 2),
    [message |-> "", severity |-> "", path |-> "", start |-> 0, end |-> 0] }

\* BurstLen findings of distinct rules, each of severity ERROR
SemgrepBurst ==
  [i \in 1..BurstLen |-> SemgrepRaw("generated.rule-" \o ToString(i), "ERROR", i, i)]

\* BurstLen findings of distinct logging rules, each of severity WARNING
ConsoleBurst ==
  [i \in 1..BurstLen |->
     SemgrepRaw("generated.no-console-" \o ToString(i), "WARNING", i, i + 1)]

SemgrepBursts == {SemgrepBurst, ConsoleBurst}

\* more findings than a report of main() shows: ReportCap of severity INFO,
\* then one of severity ERROR, all of distinct rules
SemgrepFlood ==
  [i \in 1..(ReportCap + 1) |->
     SemgrepRaw("generated.rule-" \o ToString(i),
                IF i <= ReportCap THEN "INFO" ELSE "ERROR", i, i)]

SemgrepProc(kind, results) ==
  [kind |-> kind, results |-> results, returncode |-> IF kind = "ok" THEN 1 ELSE 2,
   stderr |-> IF kind = "ok" THEN "" ELSE "semgrep: error",
   stdout |-> IF kind = "invalid_json" THEN "Traceback" ELSE ""]

SemgrepOutcomes(n) ==
  {SemgrepProc(k, <<>>) :
     k \in {"missing", "no_output", "invalid_json", "not_object", "hangs"}}
  \cup {SemgrepProc("ok", r) : r \in SeqsUpTo(SemgrepResults, n) \cup SemgrepBursts}

EslintMsg(ruleId, severity, line) ==
  [filePath |-> "/tmp/tmpab12/main.ts", ruleId |-> ruleId, severity |-> severity,
   message |-> "Lint", line |-> line]

EslintMessages ==
  { EslintMsg("no-eval", 2, 1),
    EslintMsg("@typescript-eslint/no-explicit-any", 2, 2),
    EslintMsg("no-unused-vars", 2, 4),
    EslintMsg("no-unused-vars", 1, 9),
    EslintMsg("", 2, 5) }

EslintProc(kind, messages) ==
  [kind |-> kind, messages |-> messages,
   stderr |-> IF kind \in {"empty", "unparseable"} THEN "Oops" ELSE ""]

EslintOutcomes(n) ==
  {EslintProc(k, <<>>) :
     k \in {"no_bin", "no_config", "spawn_error", "empty", "unparseable", "bad_shape",
            "hangs"}}
  \cup {EslintProc("ok", m) : m \in SeqsUpTo(EslintMessages, n)}

BanditRaw(test_id, issue_severity, line_number) ==
  [test_id |-> test_id, test_name |-> "check", issue_severity |-> issue_severity,
   filename |-> "/tmp/tmpab12/main.py", line_number |-> line_number,
   issue_text |-> "Issue"]

BanditResults ==
  { BanditRaw("B602", "HIGH", 3),
    BanditRaw("B602", "LOW", 6),
    BanditRaw("B101", "MEDIUM", 1),
    BanditRaw("B000", "UNDEFINED", 2) }

BanditProc(kind, results) ==
  [kind |-> kind, results |-> results,
   stderr |-> IF kind \in {"empty", "unparseable"} THEN "Oops" ELSE ""]

BanditOutcomes(n) ==
  {BanditProc(k, <<>>) :
     k \in {"spawn_error", "empty", "unparseable", "bad_shape", "hangs"}}
  \cup {BanditProc("ok", r) : r \in SeqsUpTo(BanditResults, n)}

Languages == {" Py ", "typescript"}
Contents == {"", " \n\t", "x", "def f(:", "eval(x)"}
Requests == [language : Languages, content : Contents]
NoRequest == [language |-> "", content |-> ""]

\* make_temp_project: the staged file is written, or write_text raises after
\* the directory was made
StagingOutcomes == {"staged", "write_failed"}

\* what is left of a TemporaryDirectory nobody cleaned up when the request
\* ends: its finalizer removes it once the object is collected, which the
\* traceback of the exception may delay
Unreferenced == {"exists", "removed"}

\* ast.parse(code) of the contents above: the ones it rejects
InvalidPython == {"def f(:"}

(***************************************************************************)
(* review() up to the staging of the request (main.py lines 280-357).      *)
(***************************************************************************)
validate_python_syntax(code) ==
  IF code \in InvalidPython
  THEN Some("Python syntax error at line 1: invalid syntax")
  ELSE None

is_python(language) == lower(strip(language)) \in {"python", "py"}

is_trivial(code) ==
  LET NonBlank(l) == strip(l) # ""
      kept == SelectSeq(split_lines(code), NonBlank)
      lines == [i \in 1..Len(kept) |-> strip(kept[i])]
  IN /\ Len(lines) = 1
     /\ Len(lines[1]) < 10
     /\ ~ \E i \in 1..Len("()[]{}:=") : Contains(lines[1], CharAt("()[]{}:=", i))

Response(ai_used, ai_error, score, summary, recommendation, bugs, security, performance, best_practices) ==
  [ai_used |-> ai_used, ai_error |-> ai_error, score |-> score,
   summary |-> summary, recommendation |-> recommendation, bugs |-> bugs,
   security |-> security, performance |-> performance,
   best_practices |-> best_practices]

EmptyInputResponse ==
  Response(TRUE, None, 1, "No code provided. Paste some code to get a review.",
           "review_required", <<>>, <<>>, <<>>,
           <<Item("Provide input code", "Paste a snippet or a diff to review.", "low")>>)

SyntaxErrorResponse(syntax_error) ==
  Response(TRUE, None, 2, "Python code has syntax errors: " \o syntax_error,
           "review_required",
           <<Item("Syntax Error", syntax_error, "high")>>, <<>>, <<>>, <<>>)

TrivialResponse ==
  Response(TRUE, None, 3,
           "Code snippet is too trivial to review. Please provide meaningful code with logic.",
           "review_required",
           <<Item("Trivial Code",
                  "Single identifier or very short snippet is not meaningful code. Add functions, classes, or logic.",
                  "medium")>>, <<>>, <<>>, <<>>)

\* main.py lines 487-504
FallbackResponse(e) ==
  Response(FALSE, Some("analysis_failed: " \o Take(e, 250)), 5,
           "Analysis failed; returned fallback response.", "review_required",
           <<>>, <<>>, <<>>,
           <<Item("Analysis failed",
                  "Could not run automated analysis tools on the provided code.",
                  "medium")>>)

(***************************************************************************)
(* State.  One run of one entry point: review(req) or main().              *)
(***************************************************************************)
VARIABLES
  entry,            \* "none", "review" (HTTP) or "main" (CI)
  pc,               \* "idle", "semgrep", "eslint", "bandit", "aggregate",
                    \* "returned", "raised" (an exception left the entry point)
                    \* or "blocked" (waiting for a process that never exits)
  req,              \* the ReviewRequest
  existing,         \* CI: the eslint targets that exist on disk
  targets_left,     \* CI: the eslint targets the loop has not visited
  raw_left,         \* raw records the tools may still report (MaxRaw)
  calls,            \* the adapter invocations made so far, in order, each
                    \* [adapter, target, ok]
  temp_dir,         \* "none", "exists" or "removed"
  semgrep_json,     \* {} or {the results of the JSON document semgrep printed}
  semgrep_security, semgrep_best,
  eslint_security, eslint_bugs, eslint_best, eslint_perf,
  eslint_issues,    \* the issues of the eslint results categorized so far, in order
  bandit_security,
  eslint_error,     \* review: eslint_error_note; main: eslint_error
  bandit_error,     \* review: bandit_error_note; main: bandit_error
  all_items,        \* review: all_items after the deduplication of line 426
  response,         \* {} or {the report returned (review) or printed (main)}
  escaped,          \* {} or {the message of the exception that escaped}
  exit_code         \* {} or {the exit status of the CI process}

env == <<req, existing>>
lists == <<semgrep_json, semgrep_security, semgrep_best, eslint_security, eslint_bugs,
           eslint_best, eslint_perf, eslint_issues, bandit_security>>
errors == <<eslint_error, bandit_error>>
outcome == <<all_items, response, escaped, exit_code>>
vars == <<entry, pc, targets_left, raw_left, calls, temp_dir, env, lists, errors, outcome>>

\* the state before a run in which the tools report at most budget raw
\* records
InitOf(budget) ==
  /\ entry = "none"
  /\ pc = "idle"
  /\ req = NoRequest
  /\ existing = {}
  /\ targets_left = <<>>
  /\ raw_left = budget
  /\ calls = <<>>
  /\ temp_dir = "none"
  /\ semgrep_json = {}
  /\ semgrep_security = <<>> /\ semgrep_best = <<>>
  /\ eslint_security = <<>> /\ eslint_bugs = <<>>
  /\ eslint_best = <<>> /\ eslint_perf = <<>>
  /\ eslint_issues = <<>>
  /\ bandit_security = <<>>
  /\ eslint_error = None /\ bandit_error = None
  /\ all_items = <<>>
  /\ response = {} /\ escaped = {} /\ exit_code = {}

Init == InitOf(MaxRaw)

(***************************************************************************)
(* review(req), main.py lines 278-506.                                     *)
(***************************************************************************)
\* lines 280-357: the three early responses, or the staging directory
ReviewEnter(r) ==
  /\ pc = "idle"
  /\ entry' = "review"
  /\ req' = r
  /\ LET code == r.content
         syntax_error == IF is_python(r.language)
                         THEN validate_python_syntax(code) ELSE None
     IN IF strip(code) = ""
        THEN /\ response' = {EmptyInputResponse}
             /\ pc' = "returned" /\ temp_dir' = temp_dir
        ELSE IF syntax_error # None
        THEN /\ response' = {SyntaxErrorResponse(CHOOSE m \in syntax_error : TRUE)}
             /\ pc' = "returned" /\ temp_dir' = temp_dir
        ELSE IF is_trivial(code)
        THEN /\ response' = {TrivialResponse}
             /\ pc' = "returned" /\ temp_dir' = temp_dir
        ELSE /\ response' = response
             /\ \E staging \in StagingOutcomes :
                  IF staging = "write_failed"
                  THEN /\ escaped' = {"[Errno 28] No space left on device"}
                       /\ pc' = "raised"
                       /\ temp_dir' \in Unreferenced
                  ELSE /\ pc' = "semgrep" /\ temp_dir' = "exists"
                       /\ UNCHANGED escaped
  /\ pc' = "returned" => UNCHANGED escaped
  /\ UNCHANGED <<existing, targets_left, raw_left, calls, lists, errors,
                 all_items, exit_code>>

Call(adapter, target, ok) == [adapter |-> adapter, target |-> target, ok |-> ok]

\* subprocess.run(cmd, ...) without timeout on a process that never exits:
\* the call, and with it the entry point, waits for ever
Blocked(adapter, target) ==
  /\ calls' = Append(calls, Call(adapter, target, FALSE))
  /\ pc' = "blocked"
  /\ UNCHANGED <<targets_left, raw_left, lists, errors, temp_dir, outcome>>

\* lines 363-364 of main.py, 30-31 of ci_review.py: the JSON, categorized
semgrep_stage(proc) ==
  LET r == run_semgrep_on_folder(proc) IN
  IF r.raised THEN r
  ELSE IF r.value.kind = "not_object"
  THEN Raised("'list' object has no attribute 'get'")
  ELSE Returned(semgrep_results_to_categories(r.value))

\* lines 487-506: the handler of the outer try, and its finally
ReviewFallback(e) ==
  /\ response' = {FallbackResponse(e)}
  /\ temp_dir' = "removed"
  /\ pc' = "returned"

\* the raw records an outcome takes from the budget: the generated lists
\* are free
SemgrepCost(proc) ==
  IF proc.results \in SemgrepBursts \cup {SemgrepFlood} THEN 0 ELSE Len(proc.results)

\* lines 363-366, for the outcome proc of the scanner
ReviewSemgrepOf(proc) ==
  /\ entry = "review" /\ pc = "semgrep"
  /\ IF proc.kind = "hangs"
     THEN Blocked("semgrep", "staged")
     ELSE LET st == semgrep_stage(proc) IN
          /\ calls' = Append(calls, Call("semgrep", "staged", ~ st.raised))
          /\ raw_left' = raw_left - SemgrepCost(proc)
          /\ IF st.raised
             THEN /\ ReviewFallback(st.msg)
                  /\ UNCHANGED <<semgrep_json, semgrep_security, semgrep_best>>
             ELSE /\ semgrep_json' = {proc.results}
                  /\ semgrep_security' = st.value.security
                  /\ semgrep_best' = st.value.best_practices
                  /\ pc' = "eslint"
                  /\ UNCHANGED <<response, temp_dir>>
          /\ UNCHANGED <<targets_left, eslint_security, eslint_bugs, eslint_best,
                         eslint_perf, eslint_issues, bandit_security, errors, all_items, escaped,
                         exit_code>>
  /\ UNCHANGED <<entry, env>>

ReviewSemgrep == \E proc \in SemgrepOutcomes(raw_left) : ReviewSemgrepOf(proc)

ReviewSemgrepFlood == ReviewSemgrepOf(SemgrepProc("ok", SemgrepFlood))

\* what both entry points do with one run_eslint call (main.py lines 379-390,
\* ci_review.py lines 45-60): the error text, or the categories
eslint_stage(proc) ==
  LET r == run_eslint(proc) IN
  IF r.raised THEN [failed |-> TRUE, error |-> r.msg]
  ELSE IF ~ r.value.ok
  THEN [failed |-> TRUE,
        error |-> IF Truthy(r.value.error)
                  THEN CHOOSE m \in r.value.error : TRUE ELSE "unknown"]
  ELSE [failed |-> FALSE, cat |-> eslint_to_schema(r.value),
        issues |-> r.value.issues]

\* lines 371-390
ReviewEslint ==
  /\ entry = "review" /\ pc = "eslint"
  /\ \E proc \in EslintOutcomes(raw_left) :
       IF proc.kind = "hangs"
       THEN Blocked("eslint", "staged")
       ELSE LET st == eslint_stage(proc) IN
            /\ calls' = Append(calls, Call("eslint", "staged", ~ st.failed))
            /\ raw_left' = raw_left - Len(proc.messages)
            /\ IF st.failed
               THEN /\ eslint_error' = Some("eslint_failed: " \o Take(st.error, 160))
                    /\ UNCHANGED <<eslint_security, eslint_bugs, eslint_best,
                                   eslint_perf, eslint_issues>>
               ELSE /\ eslint_error' = None
                    /\ eslint_security' = st.cat.security
                    /\ eslint_bugs' = st.cat.bugs
                    /\ eslint_best' = st.cat.best_practices
                    /\ eslint_perf' = st.cat.performance
                    /\ eslint_issues' = st.issues
            /\ pc' = IF is_python(req.language) THEN "bandit" ELSE "aggregate"
            /\ UNCHANGED <<targets_left, temp_dir, semgrep_json, semgrep_security,
                           semgrep_best, bandit_security, bandit_error, outcome>>
  /\ UNCHANGED <<entry, env>>

\* main.py lines 399-407, ci_review.py lines 67-75
bandit_stage(proc) ==
  LET r == run_bandit(proc) IN
  IF r.raised THEN [failed |-> TRUE, error |-> r.msg]
  ELSE IF ~ r.value.ok
  THEN [failed |-> TRUE,
        error |-> IF Truthy(r.value.error)
                  THEN CHOOSE m \in r.value.error : TRUE ELSE "unknown"]
  ELSE [failed |-> FALSE, cat |-> bandit_to_schema(r.value)]

\* lines 395-407 (reached for Python only)
ReviewBandit ==
  /\ entry = "review" /\ pc = "bandit"
  /\ \E proc \in BanditOutcomes(raw_left) :
       IF proc.kind = "hangs"
       THEN Blocked("bandit", "staged")
       ELSE LET st == bandit_stage(proc) IN
            /\ calls' = Append(calls, Call("bandit", "staged", ~ st.failed))
            /\ raw_left' = raw_left - Len(proc.results)
            /\ IF st.failed
               THEN /\ bandit_error' = Some("bandit_failed: " \o Take(st.error, 160))
                    /\ UNCHANGED bandit_security
               ELSE /\ bandit_error' = None
                    /\ bandit_security' = st.cat.security
            /\ pc' = "aggregate"
            /\ UNCHANGED <<targets_left, temp_dir, semgrep_json, semgrep_security,
                           semgrep_best,
                           eslint_security, eslint_bugs, eslint_best, eslint_perf, eslint_issues,
                           eslint_error, outcome>>
  /\ UNCHANGED <<entry, env>>

\* the merge of the categories, main.py lines 412-415 and ci_review.py
\* lines 80-83
merged_security == semgrep_security \o eslint_security \o bandit_security
merged_bugs == eslint_bugs
merged_best == semgrep_best \o eslint_best
merged_perf == eslint_perf

\* lines 420-426
review_all_items(security_items, bugs_items, best_practices_items, performance_items) ==
  unique_by_title(security_items \o bugs_items \o best_practices_items
                  \o performance_items)

\* lines 428-485: the report of review() for the merged findings
review_report(security_items, bugs_items, best_practices_items, performance_items, es_note, bd_note) ==
  LET all == review_all_items(security_items, bugs_items, best_practices_items,
                              performance_items)
      score == review_score(security_items, bugs_items, best_practices_items,
                            performance_items)
      summary == review_summary(Len(all))
      recommendation == review_recommendation(security_items, score)
      ai_error == JoinNotes(Notes(<<es_note, bd_note>>))
  IN Response(TRUE, ai_error, score, summary, recommendation,
              bugs_items, security_items, performance_items, best_practices_items)

ReviewAggregate ==
  /\ entry = "review" /\ pc = "aggregate"
  /\ response' = {review_report(merged_security, merged_bugs, merged_best,
                                merged_perf, eslint_error, bandit_error)}
  /\ all_items' = review_all_items(merged_security, merged_bugs, merged_best,
                                   merged_perf)
  /\ temp_dir' = "removed"
  /\ pc' = "returned"
  /\ UNCHANGED <<entry, env, targets_left, raw_left, calls, lists, errors,
                 escaped, exit_code>>

(***************************************************************************)
(* main(), ci_review.py lines 11-167.                                      *)
(***************************************************************************)
EslintTargets == <<"backend", "frontend">>

\* lines 21-25; the directory of ci_review.py itself, backend, exists
MainEnter ==
  /\ pc = "idle"
  /\ entry' = "main"
  /\ existing' \in {{"backend"}, {"backend", "frontend"}}
  /\ targets_left' = EslintTargets
  /\ pc' = "semgrep"
  /\ UNCHANGED <<req, raw_left, calls, temp_dir, lists, errors, outcome>>

\* lines 30-33: no handler, an exception leaves main() and the process ends
\* with the interpreter's status 1
MainSemgrepOf(proc) ==
  /\ entry = "main" /\ pc = "semgrep"
  /\ IF proc.kind = "hangs"
     THEN Blocked("semgrep", "repo")
     ELSE LET st == semgrep_stage(proc) IN
          /\ calls' = Append(calls, Call("semgrep", "repo", ~ st.raised))
          /\ raw_left' = raw_left - SemgrepCost(proc)
          /\ IF st.raised
             THEN /\ escaped' = {st.msg}
                  /\ exit_code' = {1}
                  /\ pc' = "raised"
                  /\ UNCHANGED <<semgrep_json, semgrep_security, semgrep_best>>
             ELSE /\ semgrep_json' = {proc.results}
                  /\ semgrep_security' = st.value.security
                  /\ semgrep_best' = st.value.best_practices
                  /\ pc' = "eslint"
                  /\ UNCHANGED <<escaped, exit_code>>
          /\ UNCHANGED <<targets_left, temp_dir, eslint_security, eslint_bugs,
                         eslint_best, eslint_perf, eslint_issues, bandit_security, errors,
                         all_items, response>>
  /\ UNCHANGED <<entry, env>>

MainSemgrep == \E proc \in SemgrepOutcomes(raw_left) : MainSemgrepOf(proc)

MainSemgrepFlood == MainSemgrepOf(SemgrepProc("ok", SemgrepFlood))

\* lines 41-60: one iteration of the loop over eslint_targets
MainEslint ==
  /\ entry = "main" /\ pc = "eslint"
  /\ LET t == Head(targets_left) IN
     IF t \notin existing
     THEN /\ targets_left' = Tail(targets_left)
          /\ pc' = IF targets_left' = <<>> THEN "bandit" ELSE "eslint"
          /\ UNCHANGED <<raw_left, calls, lists, errors, temp_dir, outcome>>
     ELSE \E proc \in EslintOutcomes(raw_left) :
            IF proc.kind = "hangs"
            THEN Blocked("eslint", t)
            ELSE LET st == eslint_stage(proc) IN
                 /\ calls' = Append(calls, Call("eslint", t, ~ st.failed))
                 /\ raw_left' = raw_left - Len(proc.messages)
                 /\ IF st.failed
                    THEN /\ eslint_error' = Some(Take(st.error, 200))
                         /\ targets_left' = <<>>
                         /\ UNCHANGED <<eslint_security, eslint_bugs, eslint_best,
                                        eslint_perf, eslint_issues>>
                    ELSE /\ eslint_security' = eslint_security \o st.cat.security
                         /\ eslint_bugs' = eslint_bugs \o st.cat.bugs
                         /\ eslint_best' = eslint_best \o st.cat.best_practices
                         /\ eslint_perf' = eslint_perf \o st.cat.performance
                         /\ eslint_issues' = eslint_issues \o st.issues
                         /\ targets_left' = Tail(targets_left)
                         /\ UNCHANGED eslint_error
                 /\ pc' = IF targets_left' = <<>> THEN "bandit" ELSE "eslint"
                 /\ UNCHANGED <<temp_dir, semgrep_json, semgrep_security,
                                semgrep_best, bandit_security, bandit_error,
                                outcome>>
  /\ UNCHANGED <<entry, env>>

\* lines 65-75
MainBandit ==
  /\ entry = "main" /\ pc = "bandit"
  /\ \E proc \in BanditOutcomes(raw_left) :
       IF proc.kind = "hangs"
       THEN Blocked("bandit", "repo")
       ELSE LET st == bandit_stage(proc) IN
            /\ calls' = Append(calls, Call("bandit", "repo", ~ st.failed))
            /\ raw_left' = raw_left - Len(proc.results)
            /\ IF st.failed
               THEN /\ bandit_error' = Some(Take(st.error, 200))
                    /\ UNCHANGED bandit_security
               ELSE /\ bandit_error' = None
                    /\ bandit_security' = st.cat.security
            /\ pc' = "aggregate"
            /\ UNCHANGED <<targets_left, temp_dir, semgrep_json, semgrep_security,
                           semgrep_best,
                           eslint_security, eslint_bugs, eslint_best, eslint_perf, eslint_issues,
                           eslint_error, outcome>>
  /\ UNCHANGED <<entry, env>>

\* "eslint_failed: ..." of lines 131-134
Prefixed(prefix, opt) == {prefix \o m : m \in {x \in opt : x # ""}}

\* lines 94-160: the JSON document main() prints for the merged findings
main_result(security_in, bugs_in, best_in, perf_in, es_error, bd_error) ==
  LET security_items == dedupe(security_in)
      bugs_items == dedupe(bugs_in)
      best_items == dedupe(best_in)
      perf_items == dedupe(perf_in)
      score == main_score(security_items, bugs_items, best_items, perf_items)
      recommendation == main_recommendation(security_items, score)
      notes == Notes(<<Prefixed("eslint_failed: ", es_error),
                       Prefixed("bandit_failed: ", bd_error)>>)
      has_any == \/ security_items # <<>> \/ bugs_items # <<>>
                 \/ best_items # <<>> \/ perf_items # <<>>
  IN [ai_used |-> TRUE,
      ai_error |-> JoinNotes(notes),
      score |-> score,
      summary |-> IF has_any THEN SummaryIssues ELSE SummaryClean,
      recommendation |-> recommendation,
      counts |-> [security |-> Len(security_items), bugs |-> Len(bugs_items),
                  best_practices |-> Len(best_items),
                  performance |-> Len(perf_items)],
      security |-> Take(security_items, ReportCap),
      bugs |-> Take(bugs_items, ReportCap),
      best_practices |-> Take(best_items, ReportCap),
      performance |-> Take(perf_items, ReportCap)]

\* lines 80-163
MainAggregate ==
  /\ entry = "main" /\ pc = "aggregate"
  /\ response' = {main_result(merged_security, merged_bugs, merged_best,
                              merged_perf, eslint_error, bandit_error)}
  /\ exit_code' = {IF \A r \in response' : r.recommendation = "block_merge"
                   THEN 2 ELSE 0}
  /\ pc' = "returned"
  /\ UNCHANGED <<entry, env, targets_left, raw_left, calls, temp_dir, lists,
                 errors, all_items, escaped>>

Next ==
  \/ \E r \in Requests : ReviewEnter(r)
  \/ ReviewSemgrep
  \/ ReviewEslint
  \/ ReviewBandit
  \/ ReviewAggregate
  \/ MainEnter
  \/ MainSemgrep
  \/ MainEslint
  \/ MainBandit
  \/ MainAggregate

Spec == Init /\ [][Next]_vars

\* the runs in which the pattern scanner may also report more findings than
\* ReportCap
NextFlood ==
  \/ Next
  \/ ReviewSemgrepFlood
  \/ MainSemgrepFlood

FloodSpec == Init /\ [][NextFlood]_vars

\* a run takes its next step whenever it has one: the interpreter runs the
\* entry point's statements one after the other
\* The runs of the tools that report one raw record at most.
LiveSpec == InitOf(1) /\ [][Next]_vars /\ WF_vars(Next)

(***************************************************************************)
(* Properties.                                                             *)
(***************************************************************************)
Finished == pc \in {"returned", "raised"}

HasHigh(items) == \E i \in 1..Len(items) : items[i].severity = "high"

\* a report built by the aggregation step (not an early or fallback response)
Aggregated(r) == pc = "returned" /\ calls # <<>> /\ r.ai_used

\* the four lists handed to the scorer and the recommender of the entry point
scored_security == IF entry = "main" THEN dedupe(merged_security) ELSE merged_security
scored_bugs == IF entry = "main" THEN dedupe(merged_bugs) ELSE merged_bugs
scored_best == IF entry = "main" THEN dedupe(merged_best) ELSE merged_best
scored_perf == IF entry = "main" THEN dedupe(merged_perf) ELSE merged_perf

\* C1: a report whose security bucket holds a finding of severity high
\* recommends block_merge, whatever its score and its other buckets, for
\* review() and for main() alike; so does a report whose recommender was
\* handed such a bucket.
C1_HighSecurityBlocksMerge ==
  \A r \in response :
    /\ HasHigh(r.security) => r.recommendation = "block_merge"
    /\ (Aggregated(r) /\ HasHigh(scored_security)) => r.recommendation = "block_merge"

\* C1: main() printed a report with a high security finding, a non-empty
\* best_practices bucket and a score that alone would give ok
C1_Witness ==
  \E r \in response :
    /\ entry = "main"
    /\ HasHigh(r.security)
    /\ r.best_practices # <<>>
    /\ r.score >= 7
    /\ r.recommendation = "block_merge"

\* C2: the score of every report is an integer from 1 to 10.
C2_ScoreInRange == \A r \in response : r.score \in 1..10

\* C2: review() returned a report whose penalties exceed 9, the score
\* clamped to 1
C2_Witness ==
  \E r \in response :
    /\ entry = "review"
    /\ Aggregated(r)
    /\ Cardinality({i \in 1..Len(r.security) : r.security[i].severity = "high"}) >= 5
    /\ r.score = 1

\* C3: when an adapter invocation failed, the run still ends without an
\* exception and with the normal aggregate report, the failure in its notes.
C3_PartialFailureNeverAborts ==
  (Finished /\ \E i \in 1..Len(calls) : ~ calls[i].ok) =>
    /\ escaped = {}
    /\ response # {}
    /\ \A r \in response : r.ai_used /\ r.ai_error # None

\* the score of the scorer's contract for the lists S, B, P and BP
CountOf(items, sev) == Cardinality({i \in 1..Len(items) : items[i].severity = sev})
PenaltySum(items) == 2 * CountOf(items, "high") + CountOf(items, "medium")
Clamp(x, lo, hi) == IF x < lo THEN lo ELSE IF x > hi THEN hi ELSE x
ContractScore(S, B, P, BP) ==
  Clamp(10 - (PenaltySum(S) + PenaltySum(B) + PenaltySum(P)
              + Min(PenaltySum(BP), 2)), 1, 10)

\* C4: in both entry points the score is the one of the deduplicated
\* buckets, a title repeated in a bucket counting once.
C4_ScoreOfDeduplicatedBuckets ==
  \A r \in response :
    Aggregated(r) =>
      r.score = ContractScore(dedupe(merged_security), dedupe(merged_bugs),
                              dedupe(merged_perf), dedupe(merged_best))

Titles(items) == {items[i].title : i \in 1..Len(items)}

OnePerTitle(out, items) ==
  /\ Titles(out) = Titles(items)
  /\ Len(out) = Cardinality(Titles(items))

FirstOf(items, t) ==
  items[CHOOSE i \in 1..Len(items) :
          items[i].title = t /\ \A j \in 1..(i - 1) : items[j].title # t]

LastOf(items, t) ==
  items[CHOOSE i \in 1..Len(items) :
          items[i].title = t /\ \A j \in (i + 1)..Len(items) : items[j].title # t]

KeepsFirst(out, items) == \A i \in 1..Len(out) : out[i] = FirstOf(items, out[i].title)
KeepsLast(out, items) == \A i \in 1..Len(out) : out[i] = LastOf(items, out[i].title)

\* (the deduplicated list, the list it was made from) of every
\* deduplication the finished run made; main() prints its lists cut to
\* ReportCap entries, and those of at most ReportCap entries are compared
Deduplications ==
  IF entry = "review"
  THEN {<<all_items, merged_security \o merged_bugs \o merged_best \o merged_perf>>}
  ELSE UNION {{<<r.security, merged_security>> : r \in {x \in response : x.counts.security <= ReportCap}},
              {<<r.bugs, merged_bugs>> : r \in {x \in response : x.counts.bugs <= ReportCap}},
              {<<r.best_practices, merged_best>> : r \in {x \in response : x.counts.best_practices <= ReportCap}},
              {<<r.performance, merged_perf>> : r \in {x \in response : x.counts.performance <= ReportCap}}}

\* C5 as stated: the deduplicated list holds one entry per distinct title,
\* with the content of the first finding of that title.
C5_KeepsFirstOccurrence ==
  \A r \in response :
    Aggregated(r) =>
      \A d \in Deduplications : OnePerTitle(d[1], d[2]) /\ KeepsFirst(d[1], d[2])

\* C5 amended: the deduplicated list holds one entry per distinct title,
\* with the content of the last finding of that title.
C5_KeepsLastOccurrence ==
  \A r \in response :
    Aggregated(r) =>
      \A d \in Deduplications : OnePerTitle(d[1], d[2]) /\ KeepsLast(d[1], d[2])

\* C5: main() printed a report whose security findings held one title twice
\* with different contents
C5_Witness ==
  \E r \in response :
    /\ entry = "main" /\ Aggregated(r)
    /\ \E i, j \in 1..Len(merged_security) :
         /\ i < j
         /\ merged_security[i].title = merged_security[j].title
         /\ merged_security[i] # merged_security[j]

\* the rearrangements of a list: every order of a list of at most PermMax
\* entries, every exchange of two entries of a longer one
Exchange(s, i, j) ==
  [k \in 1..Len(s) |-> IF k = i THEN s[j] ELSE IF k = j THEN s[i] ELSE s[k]]

Rearrangements(s) ==
  IF Len(s) <= PermMax
  THEN {[k \in 1..Len(s) |-> s[f[k]]] :
          f \in {g \in [1..Len(s) -> 1..Len(s)] :
                   \A a, b \in 1..Len(s) : a # b => g[a] # g[b]}}
  ELSE {Exchange(s, i, j) : i, j \in 1..Len(s)}

\* the score the entry point computes for the merged lists S, B, BP and P
EntryScore(S, B, BP, P) ==
  IF entry = "main"
  THEN main_score(dedupe(S), dedupe(B), dedupe(BP), dedupe(P))
  ELSE review_score(S, B, BP, P)

RearrangedScores ==
  {EntryScore(p, merged_bugs, merged_best, merged_perf) :
     p \in Rearrangements(merged_security)}
  \cup {EntryScore(merged_security, p, merged_best, merged_perf) :
          p \in Rearrangements(merged_bugs)}
  \cup {EntryScore(merged_security, merged_bugs, p, merged_perf) :
          p \in Rearrangements(merged_best)}

SameTitleSameSeverity(items) ==
  \A i, j \in 1..Len(items) :
    items[i].title = items[j].title => items[i].severity = items[j].severity

\* C6 as stated: the score of the report is the score of every
\* rearrangement of a bucket's findings, whatever their titles and
\* severities.
C6_ScoreOrderInvariant ==
  \A r \in response : Aggregated(r) => RearrangedScores = {r.score}

\* C6 amended: the score of the report is the score of every rearrangement
\* of a bucket's findings when findings of one title have one severity;
\* review(), which scores the lists as merged, needs no such condition.
C6_ScoreOrderInvariantSameSeverity ==
  \A r \in response :
    (/\ Aggregated(r)
     /\ \/ entry = "review"
        \/ /\ SameTitleSameSeverity(merged_security)
           /\ SameTitleSameSeverity(merged_bugs)
           /\ SameTitleSameSeverity(merged_best))
    => RearrangedScores = {r.score}

\* C6: main() printed a report for security findings of two titles and
\* different penalties, one title held twice
C6_Witness ==
  \E r \in response :
    /\ entry = "main" /\ Aggregated(r)
    /\ SameTitleSameSeverity(merged_security)
    /\ Len(merged_security) > Cardinality(Titles(merged_security))
    /\ Cardinality({merged_security[i].severity : i \in 1..Len(merged_security)}) > 1

\* C7: an exception raised under the entry point never leaves it: the run
\* ends with the fixed degraded report.
C7_ExceptionsBecomeDegradedReport ==
  (Finished /\ \E i \in 1..Len(calls) : calls[i].adapter = "semgrep" /\ ~ calls[i].ok) =>
    /\ escaped = {}
    /\ response # {}
    /\ \A r \in response :
         /\ r.score = 5
         /\ r.recommendation = "review_required"
         /\ Len(r.best_practices) = 1
         /\ r.bugs = <<>> /\ r.security = <<>> /\ r.performance = <<>>
         /\ r.ai_error # None

\* C8: the score of an aggregate report is
\* clamp(10 - (S + B + P + min(BP, 2)), 1, 10) for the penalty sums of the
\* lists given to the scorer, 2 for high, 1 for medium, 0 for low.
C8_ScoreFormula ==
  \A r \in response :
    Aggregated(r) =>
      r.score = ContractScore(scored_security, scored_bugs, scored_perf, scored_best)

\* C8: review() returned a report with penalties in three buckets, the best
\* practices capped, and a score strictly inside the range
C8_Witness ==
  \E r \in response :
    /\ entry = "review" /\ Aggregated(r)
    /\ PenaltySum(scored_security) > 0
    /\ PenaltySum(scored_bugs) > 0
    /\ PenaltySum(scored_best) > 2
    /\ r.score \in 2..9

\* C9: with the security, bugs and performance lists empty, the score is at
\* least 8, however many best_practices findings there are.
C9_BestPracticesCap ==
  \A r \in response :
    (/\ Aggregated(r)
     /\ scored_security = <<>> /\ scored_bugs = <<>> /\ scored_perf = <<>>)
    => r.score >= 8

\* C9: main() printed a report with best_practices penalties above 2, the
\* other buckets empty
C9_Witness ==
  \E r \in response :
    /\ entry = "main" /\ Aggregated(r)
    /\ scored_security = <<>> /\ scored_bugs = <<>> /\ scored_perf = <<>>
    /\ PenaltySum(scored_best) > 2
    /\ r.score = 8

\* the security bucket a report was decided on: the list handed to the
\* recommender for an aggregate report, the list of the response otherwise
DecidedSecurity(r) == IF Aggregated(r) THEN scored_security ELSE r.security

\* C10: in every report of review() (early and fallback responses included)
\* and of main(), without a high security finding the recommendation is
\* review_required for a score up to 6 and ok for a score from 7; so ok
\* implies a score of at least 7 and no high security finding.
C10_DecisionTable ==
  \A r \in response :
    /\ ~ HasHigh(DecidedSecurity(r)) =>
         /\ r.score <= 6 => r.recommendation = "review_required"
         /\ r.score >= 7 => r.recommendation = "ok"
    /\ r.recommendation = "ok" =>
         /\ r.score >= 7
         /\ ~ HasHigh(DecidedSecurity(r)) /\ ~ HasHigh(r.security)

\* C10: review() returned an aggregate report of score 6 without a high
\* security finding
C10_Witness ==
  \E r \in response :
    /\ entry = "review" /\ Aggregated(r)
    /\ ~ HasHigh(r.security)
    /\ r.score = 6
    /\ r.recommendation = "review_required"

\* C11: every run of main() ends with exit status 2 when the recommendation
\* is block_merge and with 0 otherwise, a run in which an adapter failed
\* included; no run ends with another status.
C11_ExitCodeConvention ==
  (entry = "main" /\ Finished) =>
    /\ response # {}
    /\ \A r \in response :
         exit_code = {IF r.recommendation = "block_merge" THEN 2 ELSE 0}

\* C12: every bucket list of a report of review() and of main() holds at
\* most ReportCap findings, while the score and the recommendation are those
\* of the full lists the scorer was given.
C12_BucketsCappedAfterScoring ==
  \A r \in response :
    /\ Len(r.security) <= ReportCap /\ Len(r.bugs) <= ReportCap
    /\ Len(r.best_practices) <= ReportCap /\ Len(r.performance) <= ReportCap
    /\ Aggregated(r) =>
         /\ r.score = ContractScore(scored_security, scored_bugs, scored_perf,
                                    scored_best)
         /\ HasHigh(scored_security) => r.recommendation = "block_merge"

\* C13: once a request of review() has finished, by a report, a fallback
\* report or an exception, the staging directory made for it is gone.
C13_StagingDirectoryRemoved ==
  (entry = "review" /\ Finished) => temp_dir # "exists"

\* C14: when the process of an adapter invocation never exits, the run
\* still comes to return a report, the failure of that adapter in its notes.
C14_HungScannerStillReports ==
  (pc = "blocked") ~> (response # {} /\ \A r \in response : r.ai_error # None)

\* the entries of a notes text: its parts between the separators "; "
RECURSIVE NoteEntries(_)
NoteEntries(s) ==
  IF \E i \in 1..(Len(s) - 1) : SubSeq(s, i, i + 1) = "; "
  THEN LET i == CHOOSE k \in 1..(Len(s) - 1) :
                  /\ SubSeq(s, k, k + 1) = "; "
                  /\ \A j \in 1..(k - 1) : SubSeq(s, j, j + 1) # "; "
       IN <<SubSeq(s, 1, i - 1)>> \o NoteEntries(SubSeq(s, i + 2, Len(s)))
  ELSE <<s>>

\* the adapters with a failed invocation, in the order of their first failure
FailedAdapters ==
  LET FirstFailure(i) ==
        /\ ~ calls[i].ok
        /\ \A j \in 1..(i - 1) : calls[j].ok \/ calls[j].adapter # calls[i].adapter
      Kept(i) == FirstFailure(i)
      places == SelectSeq([i \in 1..Len(calls) |-> i], Kept)
  IN [k \in 1..Len(places) |-> calls[places[k]].adapter]

\* the text that names the failure of an adapter in a note: the linter's and
\* the Python scanner's notes carry their names, the pattern scanner's
\* failure is the one of the analysis
FailureMark(adapter) ==
  IF adapter = "semgrep" THEN "analysis_failed: " ELSE adapter \o "_failed: "

\* C15: the notes of a report are null exactly when no adapter invocation
\* failed; otherwise they are one entry for each adapter that failed, in the
\* order of the failures, joined with "; ".
C15_NotesOfFailedAdapters ==
  \A r \in response :
    /\ r.ai_error = None <=> FailedAdapters = <<>>
    /\ \A text \in r.ai_error :
         LET entries == NoteEntries(text) IN
         /\ Len(entries) = Len(FailedAdapters)
         /\ \A k \in 1..Len(entries) :
              /\ Take(entries[k], Len(FailureMark(FailedAdapters[k])))
                   = FailureMark(FailedAdapters[k])
              /\ Len(entries[k]) > Len(FailureMark(FailedAdapters[k]))

\* C15: main() printed a report after the linter and the Python scanner
\* both failed, its notes holding two entries
C15_Witness ==
  \E r \in response :
    /\ entry = "main"
    /\ FailedAdapters = <<"eslint", "bandit">>
    /\ \E text \in r.ai_error : Len(NoteEntries(text)) = 2

\* C16: an aggregate report for four empty lists has score 10,
\* recommendation ok and the summary "No major issues found by automated
\* checks."; an aggregate report for a non-empty list has the summary
\* "Automated checks found issues. Review before merging.".
C16_EmptyBucketsReport ==
  \A r \in response :
    Aggregated(r) =>
      IF /\ merged_security = <<>> /\ merged_bugs = <<>>
         /\ merged_best = <<>> /\ merged_perf = <<>>
      THEN /\ r.score = 10
           /\ r.recommendation = "ok"
           /\ r.summary = "No major issues found by automated checks."
           /\ r.security = <<>> /\ r.bugs = <<>>
           /\ r.best_practices = <<>> /\ r.performance = <<>>
      ELSE r.summary = "Automated checks found issues. Review before merging."

\* C16: review() returned the report of a Python request for which the
\* three adapters ran successfully and found nothing
C16_Witness ==
  \E r \in response :
    /\ entry = "review" /\ Aggregated(r)
    /\ Len(calls) = 3 /\ \A i \in 1..Len(calls) : calls[i].ok
    /\ r.score = 10 /\ r.security = <<>> /\ r.bugs = <<>>
    /\ r.best_practices = <<>> /\ r.performance = <<>>

\* the lists of findings at hand: the four merged lists and their
\* concatenation, which review() deduplicates
ListsAtHand ==
  {merged_security, merged_bugs, merged_best, merged_perf,
   merged_security \o merged_bugs \o merged_best \o merged_perf}

\* C17: deduplicating a deduplicated list changes nothing, for dedupe of
\* main() and for unique_by_title of review().
C17_DedupeIdempotent ==
  \A items \in ListsAtHand :
    /\ dedupe(dedupe(items)) = dedupe(items)
    /\ unique_by_title(unique_by_title(items)) = unique_by_title(items)

\* C17: main() deduplicated security findings of several titles, one of
\* them held twice with different contents
C17_Witness ==
  /\ entry = "main" /\ pc = "returned"
  /\ Cardinality(Titles(merged_security)) >= 2
  /\ Len(merged_security) > Cardinality(Titles(merged_security))
  /\ dedupe(merged_security) # merged_security
  /\ ~ KeepsFirst(dedupe(merged_security), merged_security)

\* a text of whitespace only, the empty text included
Blank(s) == \A i \in 1..Len(s) : CharAt(s, i) \in Whitespace

\* C18: for a request of review() whose content is empty or whitespace,
\* whatever its language, the response has score 1, recommendation
\* review_required, the single best_practices finding "Provide input code"
\* of severity low and no other finding, and no adapter was invoked and no
\* staging directory made.
C18_EmptyInputResponse ==
  (entry = "review" /\ Blank(req.content)) =>
    /\ pc = "returned"
    /\ calls = <<>>
    /\ temp_dir = "none"
    /\ escaped = {}
    /\ Cardinality(response) = 1
    /\ \A r \in response :
         /\ r.score = 1
         /\ r.recommendation = "review_required"
         /\ Len(r.best_practices) = 1
         /\ r.best_practices[1].title = "Provide input code"
         /\ r.best_practices[1].severity = "low"
         /\ r.bugs = <<>> /\ r.security = <<>> /\ r.performance = <<>>

\* C18: review() answered a Python request whose content is whitespace
C18_Witness ==
  /\ entry = "review" /\ pc = "returned"
  /\ req.content # "" /\ Blank(req.content)
  /\ is_python(req.language)
  /\ response = {EmptyInputResponse}

\* the adapter invocations of a run that gets to its adapters: the pattern
\* scanner, the linter on the staged request or on every existing target
\* directory, the Python scanner (in review() for a Python request)
DueCalls ==
  IF entry = "main"
  THEN {<<"semgrep", "repo">>, <<"bandit", "repo">>}
       \cup {<<"eslint", t>> : t \in existing}
  ELSE {<<"semgrep", "staged">>, <<"eslint", "staged">>}
       \cup (IF is_python(req.language) THEN {<<"bandit", "staged">>} ELSE {})

MadeCalls == {<<calls[i].adapter, calls[i].target>> : i \in 1..Len(calls)}

\* C19: in every finished run that got to its adapters every adapter
\* invocation was attempted, whichever of them failed.
C19_EveryAdapterRuns ==
  (Finished /\ calls # <<>>) => MadeCalls = DueCalls

\* the rule ids of dynamic execution and of debug logging
DynamicExecutionRule(id) == Contains(lower(id), "eval")
ConsoleRule(id) == Contains(lower(id), "console")

\* the findings of a bucket made from results of the rule id
OfRule(bucket, id) ==
  Cardinality({i \in 1..Len(bucket) :
                 bucket[i].title \in {id, "semgrep." \o id}})

\* the raw results of the rule id
RawOfRule(results, id) ==
  Cardinality({i \in 1..Len(results) : semgrep_check_id(results[i]) = id})

\* C20: of the raw results of the pattern scanner, each is placed in
\* exactly one of the two buckets and none is dropped; the results of a
\* dynamic-execution rule are in security, those of a console rule and
\* those of a rule that is neither are in best_practices.
C20_UnmatchedToBestPractices ==
  \A results \in semgrep_json :
    /\ Len(semgrep_security) + Len(semgrep_best) = Len(results)
    /\ \A i \in 1..Len(results) :
         LET id == semgrep_check_id(results[i]) IN
         IF DynamicExecutionRule(id)
         THEN /\ OfRule(semgrep_security, id) = RawOfRule(results, id)
              /\ OfRule(semgrep_best, id) = 0
         ELSE /\ OfRule(semgrep_best, id) = RawOfRule(results, id)
              /\ OfRule(semgrep_security, id) = 0

\* the linter's table: the diagnostics that yield a bugs finding and those
\* that yield a best_practices finding
WeakTypingRule == "@typescript-eslint/no-explicit-any"

YieldsBug(it) ==
  it.rule_id \notin {"no-eval", WeakTypingRule} /\ it.severity_num = 2

YieldsBestPractice(it) ==
  \/ it.rule_id = WeakTypingRule
  \/ it.rule_id # "no-eval" /\ it.severity_num # 2

\* the findings are those of the diagnostics its, one each and in order,
\* all of the severity sev
FindingsOf(findings, its, sev) ==
  /\ Len(findings) = Len(its)
  /\ \A k \in 1..Len(its) :
       /\ findings[k].title = "eslint." \o its[k].rule_id
       /\ findings[k].severity = sev

\* C21: of the linter's diagnostics, no-eval yields no finding,
\* @typescript-eslint/no-explicit-any one best_practices finding of severity
\* medium whatever its level, any other diagnostic of level 2 one bugs
\* finding of severity high and any other one best_practices finding of
\* severity medium; the linter's security and performance lists are empty.
C21_LinterTable ==
  /\ FindingsOf(eslint_bugs, SelectSeq(eslint_issues, YieldsBug), "high")
  /\ FindingsOf(eslint_best, SelectSeq(eslint_issues, YieldsBestPractice), "medium")
  /\ eslint_security = <<>>
  /\ eslint_perf = <<>>

\* C21: a run returned after the linter reported no-eval and an
\* error-level @typescript-eslint/no-explicit-any
C21_Witness ==
  /\ pc = "returned"
  /\ \E i \in 1..Len(eslint_issues) : eslint_issues[i].rule_id = "no-eval"
  /\ \E i \in 1..Len(eslint_issues) :
       /\ eslint_issues[i].rule_id = WeakTypingRule
       /\ eslint_issues[i].severity_num = 2
  /\ Len(eslint_best) = 1 /\ eslint_bugs = <<>>

\* the title is the tool's name, a dot and the id
TitleOf(title, tool, id) == title = tool \o "." \o id

\* the rule id of a raw result of the pattern scanner ("issue" when the
\* result has none) and the findings made of the scanner's results
RuleIdOf(f) == IF "check_id" \in DOMAIN f THEN f.check_id ELSE "issue"
semgrep_findings == semgrep_security \o semgrep_best

\* the findings of the linter and the diagnostics they were made of
eslint_findings == eslint_bugs \o eslint_best
KeptIssues ==
  {i \in 1..Len(eslint_issues) :
     YieldsBug(eslint_issues[i]) \/ YieldsBestPractice(eslint_issues[i])}

\* C22: the title of every finding of the three categorizers is the tool's
\* name, a dot and the rule or check id of a raw record of that tool, and
\* the records of one tool and one id get one title.
C22_TitleIsToolDotId ==
  /\ \A results \in semgrep_json :
       /\ \A k \in 1..Len(semgrep_findings) :
            \E i \in 1..Len(results) :
              TitleOf(semgrep_findings[k].title, "semgrep", RuleIdOf(results[i]))
       /\ Cardinality(Titles(semgrep_findings))
            = Cardinality({RuleIdOf(results[i]) : i \in 1..Len(results)})
  /\ \A k \in 1..Len(eslint_findings) :
       \E i \in KeptIssues :
         TitleOf(eslint_findings[k].title, "eslint", eslint_issues[i].rule_id)
  /\ Cardinality(Titles(eslint_findings))
       = Cardinality({eslint_issues[i].rule_id : i \in KeptIssues})
  /\ \A k \in 1..Len(bandit_security) :
       /\ Take(bandit_security[k].title, 7) = "bandit."
       /\ Len(bandit_security[k].title) > 7

====
